---- MODULE Spec2Model ----
(***************************************************************************)
(* Two prototypes of a side-scrolling bike game: src/o3.py (sine-plus-noise *)
(* terrain generated once, spring suspension, velocity clamp) and           *)
(* src/Deepseek.py (random-walk terrain extended while riding).             *)
(*                                                                          *)
(* prog says which prototype a behaviour runs; it is chosen once, in Init. *)
(* Each iteration of a prototype's frame loop is walked statement group by  *)
(* statement group through pc.                                              *)
(*                                                                          *)
(* Numbers.  The programs compute in binary floating point; the model uses  *)
(* fixed point: lengths in 1/Scale pixel, o3 velocities in 1/Scale pixel    *)
(* per second, Deepseek speeds in 1/Scale pixel per frame, o3 angles in     *)
(* 1/1000 radian, Deepseek tilt in 1/Scale degree, dt in milliseconds (the  *)
(* integer clock.tick returns).  Every division is rounded down (\div).     *)
(* The random draws (terrain jitter, height deltas, bonus places) and the   *)
(* inputs (keys, dt, quit) are chosen from small sets.                      *)
(***************************************************************************)
EXTENDS Integers, Sequences, FiniteSets

VARIABLES
    prog,           \* "o3" or "ds": the prototype that runs
    pc,             \* position in the body of the frame loop
    frame,          \* iterations of the frame loop started so far
    running,        \* the loop variable `running`
    dt,             \* milliseconds of the current frame (clock.tick(60))
    keys,           \* keys held in the current frame (pygame.key.get_pressed)
    trace,          \* history: the components run so far in the current frame
    terrain,        \* o3: the global list `terrain` of <<x, y>>
    bonus_points,   \* o3: the global list `bonus_points` of <<x, y>>
    bike,           \* the Bike object (a record; its fields depend on prog)
    scroll_x,       \* o3: main's local scroll_x
    game_time,      \* o3: main's local game_time, in milliseconds
    points,         \* Deepseek: Terrain.points, a list of <<x, y>>
    current_x,      \* Deepseek: Terrain.current_x
    camera_x,       \* Deepseek: Game.camera_x
    bonuses         \* Deepseek: Game.bonuses, a list of Bonus records

vars == <<prog, pc, frame, running, dt, keys, trace, terrain, bonus_points,
          bike, scroll_x, game_time, points, current_x, camera_x, bonuses>>

-----------------------------------------------------------------------------
(* Bounds of the model *)

\* 1/Scale pixel is the unit of length
Scale == 10 * 10

\* frames of the loop a behaviour runs
MaxFrames == 2

\* the frame times drawn, in ms: a frame at the 60 Hz cap and a stalled frame
DTs == {17, 500}

\* the keys of the two programs
Keys == {"UP", "DOWN", "LEFT", "RIGHT"}

Abs(v) == IF v < 0 THEN -v ELSE v

Min(a, b) == IF a < b THEN a ELSE b

Max(a, b) == IF a > b THEN a ELSE b

Last(s) == s[Len(s)]

IsPrefix(s, t) == Len(s) <= Len(t) /\ SubSeq(t, 1, Len(s)) = s

-----------------------------------------------------------------------------
(* src/o3.py *)

HEIGHT_O3 == 600

WIDTH_O3 == 1000

amplitude == 80

terrain_length == 5000

terrain_step == 10

BONUS_COUNT == 20

\* round(Scale * amplitude * sin(frequency * x)) for x = 0, 10, ..., 4990,
\* frequency = 0.005 (o3.py:35): the sine term of o3.py:39
SinTab == <<
    0, 400, 799, 1196, 1589, 1979, 2364, 2743, 3115, 3480, 3835, 4181, 4517, 4841, 5154, 5453, 5739, 6010, 6267, 6507,
    6732, 6939, 7130, 7302, 7456, 7592, 7708, 7806, 7884, 7942, 7980, 7998, 7997, 7975, 7933, 7872, 7791, 7690, 7570, 7432,
    7274, 7099, 6906, 6695, 6468, 6225, 5966, 5692, 5404, 5102, 4788, 4461, 4124, 3776, 3419, 3053, 2680, 2300, 1914, 1523,
    1129, 732, 333, -67, -467, -866, -1262, -1655, -2044, -2428, -2806, -3177, -3540, -3894, -4239, -4572, -4895, -5205, -5502, -5786,
    -6054, -6308, -6546, -6768, -6973, -7160, -7329, -7480, -7613, -7726, -7820, -7895, -7950, -7984, -7999, -7994, -7969, -7924, -7860, -7775,
    -7671, -7548, -7407, -7246, -7068, -6871, -6658, -6428, -6182, -5921, -5644, -5354, -5050, -4734, -4405, -4066, -3717, -3358, -2991, -2616,
    -2235, -1849, -1457, -1062, -665, -265, 135, 534, 932, 1328, 1721, 2109, 2492, 2869, 3239, 3600, 3953, 4296, 4628, 4948,
    5256, 5551, 5832, 6098, 6349, 6585, 6803, 7005, 7190, 7356, 7504, 7633, 7743, 7834, 7905, 7957, 7988, 8000, 7992, 7963,
    7915, 7847, 7759, 7652, 7526, 7381, 7217, 7036, 6837, 6621, 6388, 6139, 5875, 5596, 5304, 4998, 4679, 4349, 4008, 3657,
    3297, 2929, 2553, 2171, 1783, 1391, 996, 598, 198, -202, -601, -999, -1395, -1787, -2174, -2556, -2932, -3300, -3660, -4011,
    -4352, -4682, -5001, -5306, -5599, -5878, -6141, -6390, -6623, -6839, -7038, -7219, -7382, -7527, -7653, -7760, -7847, -7915, -7963, -7992,
    -8000, -7988, -7956, -7905, -7833, -7742, -7632, -7503, -7355, -7188, -7004, -6802, -6583, -6347, -6096, -5829, -5548, -5253, -4945, -4625,
    -4293, -3950, -3597, -3236, -2866, -2489, -2106, -1717, -1325, -929, -531, -131, 269, 668, 1066, 1461, 1852, 2239, 2620, 2994,
    3361, 3720, 4069, 4408, 4737, 5053, 5357, 5647, 5923, 6184, 6430, 6660, 6873, 7069, 7248, 7408, 7550, 7672, 7776, 7860,
    7925, 7970, 7994, 7999, 7984, 7949, 7894, 7819, 7725, 7612, 7479, 7328, 7158, 6971, 6766, 6544, 6306, 6052, 5783, 5500,
    5202, 4892, 4570, 4236, 3891, 3537, 3174, 2803, 2425, 2041, 1652, 1258, 862, 463, 64, -336, -735, -1132, -1527, -1917,
    -2303, -2683, -3057, -3422, -3779, -4127, -4464, -4791, -5105, -5406, -5694, -5968, -6227, -6470, -6697, -6907, -7101, -7276, -7433, -7572,
    -7691, -7792, -7873, -7934, -7975, -7997, -7998, -7980, -7941, -7883, -7805, -7708, -7591, -7455, -7301, -7128, -6938, -6730, -6505, -6264,
    -6008, -5736, -5451, -5151, -4839, -4514, -4178, -3832, -3477, -3112, -2740, -2361, -1976, -1586, -1192, -795, -396, 4, 403, 802,
    1199, 1593, 1983, 2368, 2747, 3119, 3483, 3839, 4185, 4520, 4844, 5156, 5456, 5741, 6013, 6269, 6509, 6734, 6941, 7131,
    7304, 7458, 7593, 7709, 7807, 7884, 7942, 7980, 7998, 7996, 7975, 7933, 7871, 7790, 7689, 7569, 7430, 7273, 7097, 6904,
    6693, 6466, 6222, 5963, 5689, 5401, 5099, 4785, 4459, 4121, 3773, 3416, 3050, 2677, 2296, 1911, 1520, 1125, 728, 329,
    -71, -471, -869, -1265, -1659, -2048, -2432, -2810, -3180, -3543, -3897, -4242, -4575, -4898, -5208, -5505, -5788, -6057, -6310, -6548,
    -6770, -6974, -7161, -7331, -7482, -7614, -7727, -7821, -7895, -7950, -7985, -7999, -7994, -7969, -7924, -7859, -7774, -7670, -7547, -7405,
    -7245, -7066, -6870, -6656, -6426, -6180, -5918, -5642, -5351, -5047, -4731, -4403, -4063, -3714, -3355, -2988, -2613, -2232, -1845, -1454
>>

\* the jitter drawn by random.uniform(-20, 20), in pixels
Jitters == {-20, 0, 20}

\* The jitter of sample i: one draw, base, taken with alternating sign from
\* sample to sample (a rugged profile when base # 0, a smooth one when 0)
JitterOf(base, i) == IF i % 2 = 0 THEN base ELSE -base

\* o3.py:39  y = HEIGHT - (amplitude*sin(frequency*x) + amplitude + jitter)
\* for the sample of index i (x = i * step), jitter j
SampleY(i, j) == HEIGHT_O3 * Scale - (SinTab[i + 1] + amplitude * Scale + j * Scale)

\* o3.py:28-42  generate_terrain: one sample per step while x < length
generate_terrain(length, step, base) ==
    LET n == (length + step - 1) \div step
    IN  [k \in 1..n |-> <<(k - 1) * step * Scale, SampleY(k - 1, JitterOf(base, k - 1))>>]

\* o3.py:52-59  generate_bonus_points: a bonus 50 above each drawn sample.
\* idx is the list random.sample drew (distinct indices, 0-based).
generate_bonus_points(terr, idx) ==
    [k \in 1..Len(idx) |-> <<terr[idx[k] + 1][1], terr[idx[k] + 1][2] - 50 * Scale>>]

\* the index lists drawn for the bonuses: BONUS_COUNT samples, BonusStride
\* apart, from a first one next to the start of the bike
BonusFirsts == {10}

BonusStride == 24

BonusIndices(first) == [k \in 1..BONUS_COUNT |-> first + (k - 1) * BonusStride]

\* o3.py:93-94  t = (x - x1) / (x2 - x1); y1 * (1 - t) + y2 * t, computed as
\* y1 + (y2 - y1) * t with one rounding
Lerp(x1, y1, x2, y2, x) == y1 + ((y2 - y1) * (x - x1)) \div (x2 - x1)

\* o3.py:81-94  Bike.get_ground_y
get_ground_y(terr, x) ==
    IF x < 0 THEN terr[1][2]
    ELSE IF x > Last(terr)[1] THEN Last(terr)[2]
    ELSE LET index == Min(x \div (terrain_step * Scale), Len(terr) - 2)
             p1 == terr[index + 1]
             p2 == terr[index + 2]
         IN  Lerp(p1[1], p1[2], p2[1], p2[2], x)

\* atan(z) for |z| <= 1, z and the result in 1/1000:
\* z * (pi/4 + 0.273 * (1 - |z|))
AtanUnit(zm) == (zm * (785 + (273 * (1000 - Abs(zm))) \div 1000)) \div 1000

\* math.atan2(num, den) for den > 0, in 1/1000 radian
Atan2(num, den) ==
    IF Abs(num) <= den THEN AtanUnit((num * 1000) \div den)
    ELSE IF num > 0 THEN 1571 - AtanUnit((den * 1000) \div num)
    ELSE -1571 + AtanUnit((den * 1000) \div (-num))

\* math.exp(-x) for x >= 0, x and the result in 1/1000:
\* (1 - x/2 + x^2/12) / (1 + x/2 + x^2/12)
ExpNeg(xm) ==
    ((1000 - xm \div 2 + (xm * xm) \div 12000) * 1000)
        \div (1000 + xm \div 2 + (xm * xm) \div 12000)

\* o3.py:96-102  Bike.get_ground_slope, delta = 1.0
get_ground_slope(terr, x) ==
    Atan2(get_ground_y(terr, x + Scale) - get_ground_y(terr, x - Scale), 2 * Scale)

\* o3.py:68-79  Bike.__init__
NewBikeO3(terr) ==
    [x |-> 100 * Scale, y |-> get_ground_y(terr, 100 * Scale), vx |-> 0, ax |-> 0,
     angle |-> 0, angular_velocity |-> 0, score |-> 0, distance |-> 0]

\* the two tests in the other order: the brake wins when both keys are held
AccelerationBrakeFirst(k) ==
    IF "DOWN" \in k THEN -80 * Scale
    ELSE IF "UP" \in k THEN 100 * Scale
    ELSE 0

\* o3.py:106-110  the pedal force: UP first, DOWN only when UP is not held
Acceleration(k) ==
    IF "UP" \in k THEN 100 * Scale
    ELSE IF "DOWN" \in k THEN -80 * Scale
    ELSE 0

\* a velocity step that forgets the clamp
NoClampVx(v) == v

\* o3.py:117-118  no reversing
ClampVx(v) == IF v < 0 THEN 0 ELSE v

\* o3.py:113-120  the horizontal sub-step: drag, Euler step, clamp
Horizontal(b, d, k) ==
    LET ax == Acceleration(k) - b.vx \div 2
        vx == ClampVx(b.vx + (ax * d) \div 1000)
        x  == b.x + (vx * d) \div 1000
    IN  [b EXCEPT !.ax = ax, !.vx = vx, !.x = x, !.distance = x]

suspension_offset == -5

spring_k == 10

error_threshold == 50

\* o3.py:129  error = (ground_y + suspension_offset) - self.y
TrackingError(b, terr) == (get_ground_y(terr, b.x) + suspension_offset * Scale) - b.y

\* o3.py:123-136, 155-157  the vertical sub-step: the spring pull computed
\* from the error before the pull, then the snap decided on that same error
Vertical(b, d, terr) ==
    LET error == TrackingError(b, terr)
        ay    == spring_k * error
        y     == b.y + (ay * d) \div 1000
    IN  [b EXCEPT !.y = IF Abs(error) > error_threshold * Scale
                        THEN get_ground_y(terr, b.x) + suspension_offset * Scale
                        ELSE y]

\* o3.py:140-144
TiltInput(k) ==
    IF "LEFT" \in k THEN 1
    ELSE IF "RIGHT" \in k THEN -1
    ELSE 0

\* o3.py:124, 147-153  the rotational sub-step
Rotational(b, d, k, terr) ==
    LET desired_angle == -get_ground_slope(terr, b.x)
        torque == 5 * TiltInput(k) * 1000 + 2 * (desired_angle - b.angle)
        av     == ((b.angular_velocity + (torque * d) \div 1000) * ExpNeg(3 * d)) \div 1000
    IN  [b EXCEPT !.angular_velocity = av, !.angle = b.angle + (av * d) \div 1000]

\* o3.py:104-157  Bike.update(dt, keys).  The vertical and the rotational
\* sub-steps both read the x of the horizontal one and write disjoint fields.
BikeUpdate(b, d, k, terr) ==
    LET h == Horizontal(b, d, k)
    IN  Rotational(Vertical(h, d, terr), d, k, terr)

x_tolerance == 20

y_tolerance == 30

\* o3.py:164  the collection test
NearBonus(b, bp) ==
    Abs(b.x - bp[1]) < x_tolerance * Scale /\ Abs(b.y - bp[2]) < y_tolerance * Scale

\* o3.py:165  self.score += 1
o3_award == 1

\* o3.py:159-167  Bike.check_bonus: <<the bike with its score, the list collected>>
check_bonus(b, bps) ==
    LET collected == SelectSeq(bps, LAMBDA bp : NearBonus(b, bp))
    IN  <<[b EXCEPT !.score = b.score + o3_award * Len(collected)], collected>>

\* a frame loop that forgets to remove what was collected
KeepCollected(bps, collected) == bps

\* o3.py:224-225  for c in collected: bonus_points.remove(c)
RemoveCollected(bps, collected) ==
    SelectSeq(bps, LAMBDA bp : \A i \in 1..Len(collected) : collected[i] # bp)

\* o3.py:223-225  the collection of a frame, as main runs it
CollectO3(b, bps) ==
    LET r == check_bonus(b, bps)
    IN  <<r[1], RemoveCollected(bps, r[2])>>

\* o3.py:228-232  the camera
ScrollOf(x) ==
    LET s == x - (WIDTH_O3 * Scale * 3) \div 10
    IN  Min(Max(s, 0), (terrain_length - WIDTH_O3) * Scale)

-----------------------------------------------------------------------------
(* src/Deepseek.py *)

WIDTH == 1200

HEIGHT == 600

TERRAIN_SEGMENT_LENGTH == 50

\* FRICTION = 0.96, in 1/100
FRICTION == 96

\* BIKE_ACCEL = 0.3 pixel per frame (Deepseek.py:13)
BIKE_ACCEL == (3 * Scale) \div 10

\* TILT_SPEED = 1.5 degree per frame (Deepseek.py:14)
TILT_SPEED == (15 * Scale) \div 10

\* the height deltas drawn by random.randint(-50, 50), in pixels
Deltas == {-50, 0, 50}

\* Deepseek.py:35, 41  y = max(200, min(HEIGHT - 100, y))
ClampY(y) == Max(200 * Scale, Min((HEIGHT - 100) * Scale, y))

\* Deepseek.py:29-35  generate_initial_terrain: the first sample at
\* HEIGHT // 2, each later one the one before plus the delta drawn, clamped
RECURSIVE InitialPoints(_, _)
InitialPoints(n, d) ==
    IF n = 1 THEN << <<0, (HEIGHT \div 2) * Scale>> >>
    ELSE LET pts == InitialPoints(n - 1, d)
         IN  Append(pts, <<(n - 1) * TERRAIN_SEGMENT_LENGTH * Scale,
                           ClampY(Last(pts)[2] + d * Scale)>>)

generate_initial_terrain(d) ==
    InitialPoints(WIDTH \div TERRAIN_SEGMENT_LENGTH + 2, d)

\* an extension that keeps the list at its length: each sample appended
\* pushes the oldest one out
RECURSIVE update_terrain_evict(_, _, _)
update_terrain_evict(pts, bike_x, d) ==
    IF Last(pts)[1] < bike_x + WIDTH * Scale
    THEN update_terrain_evict(
             Tail(Append(pts, <<Last(pts)[1] + TERRAIN_SEGMENT_LENGTH * Scale,
                                ClampY(Last(pts)[2] + d * Scale)>>)),
             bike_x, d)
    ELSE pts

\* Deepseek.py:37-42  Terrain.update_terrain(bike_x); d is the delta drawn
RECURSIVE update_terrain(_, _, _)
update_terrain(pts, bike_x, d) ==
    IF Last(pts)[1] < bike_x + WIDTH * Scale
    THEN update_terrain(
             Append(pts, <<Last(pts)[1] + TERRAIN_SEGMENT_LENGTH * Scale,
                           ClampY(Last(pts)[2] + d * Scale)>>),
             bike_x, d)
    ELSE pts

\* Deepseek.py:45-51  Bike.__init__(x, y)
NewBikeDS(x, y) ==
    [x |-> x, y |-> y, speed |-> 0, tilt |-> 0, balance |-> 0, score |-> 0]

\* a segment search over half-open segments [x_i, x_i+1)
get_current_segment_half_open(pts, x) ==
    LET hit == {i \in 1..(Len(pts) - 1) : pts[i][1] <= x /\ x < pts[i + 1][1]}
    IN  IF hit # {}
        THEN LET i == CHOOSE j \in hit : \A h \in hit : j <= h
             IN  <<pts[i], pts[i + 1]>>
        ELSE <<pts[1], pts[2]>>

\* Deepseek.py:72-76  Bike.get_current_segment: the first segment that
\* holds x, and the first segment of the list when none does
get_current_segment(pts, x) ==
    LET hit == {i \in 1..(Len(pts) - 1) : pts[i][1] <= x /\ x <= pts[i + 1][1]}
    IN  IF hit # {}
        THEN LET i == CHOOSE j \in hit : \A h \in hit : j <= h
             IN  <<pts[i], pts[i + 1]>>
        ELSE <<pts[1], pts[2]>>

\* Deepseek.py:78-82  Bike.get_terrain_height: t = (x - x1) / (x2 - x1);
\* y1 * (1 - t) + y2 * t, computed as y1 + (y2 - y1) * t with one rounding
get_terrain_height(seg, x) ==
    LET x1 == seg[1][1]
        y1 == seg[1][2]
        x2 == seg[2][1]
        y2 == seg[2][2]
    IN  y1 + ((y2 - y1) * (x - x1)) \div (x2 - x1)

\* the height query of the Deepseek prototype: the two calls of
\* Deepseek.py:62-63
HeightDS(pts, x) == get_terrain_height(get_current_segment(pts, x), x)

\* Deepseek.py:53-70  Bike.update(terrain_points, dt).  dt is never read, and
\* the y += GRAVITY of line 56 is overwritten by line 66 in the same call.
BikeUpdateDS(b, pts) ==
    LET speed   == (b.speed * FRICTION) \div 100
        x       == b.x + speed
        seg     == get_current_segment(pts, x)
        balance == seg[2][2] - seg[1][2]
    IN  [b EXCEPT !.speed = speed, !.x = x,
                  !.y = get_terrain_height(seg, x) - 20 * Scale,
                  !.balance = balance,
                  !.tilt = b.tilt + ((-balance) \div 10 - b.tilt) \div 10]

\* Deepseek.py:107-116  Game.handle_input: four independent tests
handle_input(b, k) ==
    LET s1 == IF "UP" \in k THEN b.speed + BIKE_ACCEL ELSE b.speed
        s2 == IF "DOWN" \in k THEN s1 - BIKE_ACCEL ELSE s1
        t1 == IF "LEFT" \in k THEN b.tilt - TILT_SPEED ELSE b.tilt
        t2 == IF "RIGHT" \in k THEN t1 + TILT_SPEED ELSE t1
    IN  [b EXCEPT !.speed = s2, !.tilt = t2]

\* Deepseek.py:118-120  Game.update_camera, CAMERA_SMOOTHNESS = 0.1
update_camera(cam, b) ==
    LET target_x == b.x - (WIDTH \div 2) * Scale
    IN  cam + (target_x - cam) \div 10

ds_x_tolerance == 30

ds_award == 10

\* Deepseek.py:155  the collection test of one bonus
Collects(b, bonus) == ~bonus.collected /\ Abs(b.x - bonus.x) < ds_x_tolerance * Scale

\* Deepseek.py:153-157  Game.check_bonus_collection: <<the bike, the bonuses>>
check_bonus_collection(b, bs) ==
    LET hit == {i \in 1..Len(bs) : Collects(b, bs[i])}
    IN  <<[b EXCEPT !.score = b.score + ds_award * Cardinality(hit)],
          [i \in 1..Len(bs) |-> IF i \in hit THEN [bs[i] EXCEPT !.collected = TRUE]
                                             ELSE bs[i]]>>

\* Deepseek.py:99-105  Game.generate_bonuses: 20 bonuses.  The first is drawn
\* at <<bx, by>>, the second 10 further at mid height, the others 200 apart.
generate_bonuses(bx, by) ==
    [k \in 1..20 |->
        IF k = 1 THEN [x |-> bx * Scale, y |-> by * Scale, collected |-> FALSE]
        ELSE IF k = 2 THEN [x |-> (bx + 10) * Scale, y |-> 300 * Scale, collected |-> FALSE]
        ELSE [x |-> (1000 + 200 * (k - 2)) * Scale, y |-> 300 * Scale, collected |-> FALSE]]

\* the places drawn for the first bonus: randint(500, 5000), randint(200, HEIGHT - 200)
BonusXs == {500}

BonusYs == {200}

\* Deepseek.py:91-97  Game.__init__
NewGame(d, bx, by) ==
    [points |-> generate_initial_terrain(d),
     bike |-> NewBikeDS(100 * Scale, (HEIGHT \div 2) * Scale),
     camera_x |-> 0,
     bonuses |-> generate_bonuses(bx, by)]

\* Deepseek.py:167-171  the state changes of one iteration of Game.run with
\* the keys k held and the delta d drawn
FrameDS(g, k, d) ==
    LET b1  == handle_input(g.bike, k)
        pts == update_terrain(g.points, b1.x, d)
        b2  == BikeUpdateDS(b1, pts)
        cam == update_camera(g.camera_x, b2)
        c   == check_bonus_collection(b2, g.bonuses)
    IN  [points |-> pts, bike |-> c[1], camera_x |-> cam, bonuses |-> c[2]]

\* n iterations of Game.run with the same keys held
RECURSIVE RunDS(_, _, _, _)
RunDS(g, k, d, n) ==
    IF n = 0 THEN g
    ELSE LET h == FrameDS(g, k, d)
         IN  IF h = h THEN RunDS(h, k, d, n - 1) ELSE g  \* h is computed first

\* Frames ridden before the first frame that is followed step by step: none,
\* accelerating up to the first bonus, or braking from rest past x = 0.
RideUp == 75

RideDown == 32

Rides == {<<0, {}>>, <<RideUp, {"UP"}>>, <<RideDown, {"DOWN"}>>}

-----------------------------------------------------------------------------
(* The state after start-up *)

\* o3.py:47, 62, 204-207  module start-up and the head of main
InitO3 ==
    /\ prog = "o3"
    /\ \E base \in Jitters, first \in BonusFirsts :
          /\ terrain = generate_terrain(terrain_length, terrain_step, base)
          /\ bonus_points = generate_bonus_points(terrain, BonusIndices(first))
          /\ bike = NewBikeO3(terrain)
    /\ scroll_x = 0
    /\ game_time = 0
    /\ points = <<>>
    /\ current_x = 0
    /\ camera_x = 0
    /\ bonuses = <<>>

\* Deepseek.py:189-190, 91-97  Game(), then the frames of a ride
InitDS ==
    /\ prog = "ds"
    /\ \E d \in Deltas, bx \in BonusXs, by \in BonusYs, ride \in Rides :
          LET g == RunDS(NewGame(d, bx, by), ride[2], d, ride[1])
          IN  /\ points = g.points
              /\ bike = g.bike
              /\ camera_x = g.camera_x
              /\ bonuses = g.bonuses
    /\ current_x = (WIDTH \div TERRAIN_SEGMENT_LENGTH + 2) * TERRAIN_SEGMENT_LENGTH * Scale
    /\ terrain = <<>>
    /\ bonus_points = <<>>
    /\ scroll_x = 0
    /\ game_time = 0

Init ==
    /\ pc = "top"
    /\ frame = 0
    /\ running = TRUE
    /\ dt = 0
    /\ keys = {}
    /\ trace = <<>>
    /\ (InitO3 \/ InitDS)

-----------------------------------------------------------------------------
(* src/o3.py, main: one action per statement group of the loop body *)

o3_vars == <<terrain, bonus_points, bike, scroll_x, game_time>>

\* pc is "top" at the head of the loop, "done" after it, and otherwise the
\* component that runs next.

\* the component after c in an iteration that runs `order`
After(order, c) ==
    LET i == CHOOSE j \in 1..Len(order) : order[j] = c
    IN  IF i = Len(order) THEN "top" ELSE order[i + 1]

\* o3.py:211-244  the statements of the loop body, in order: tick, events and
\* keys; bike.update; check_bonus and removal; scroll_x; drawing
OrderO3 == <<"input", "step", "collect", "camera", "render">>

\* a loop body that collects before it moves the camera
OrderDS_collect_first == <<"input", "extend", "step", "collect", "camera", "render">>

\* Deepseek.py:167-184  the calls of the loop body, in order: handle_input;
\* update_terrain; bike.update; update_camera; check_bonus_collection; drawing
OrderDS == <<"input", "extend", "step", "camera", "collect", "render">>

ds_vars == <<points, current_x, camera_x, bonuses>>

\* o3.py:210-219  while running: the tick, the events, the keys
O3Input ==
    /\ prog = "o3" /\ pc = "top" /\ running /\ frame < MaxFrames
    /\ \E d \in DTs, k \in SUBSET Keys, quit \in BOOLEAN :
          /\ dt' = d
          /\ keys' = k
          /\ running' = ~quit
          /\ game_time' = game_time + d
    /\ frame' = frame + 1
    /\ trace' = <<"input">>
    /\ pc' = After(OrderO3, "input")
    /\ UNCHANGED <<prog, terrain, bonus_points, bike, scroll_x>>
    /\ UNCHANGED ds_vars

\* o3.py:222  bike.update(dt, keys)
O3Update ==
    /\ prog = "o3" /\ pc = "step"
    /\ bike' = BikeUpdate(bike, dt, keys, terrain)
    /\ trace' = Append(trace, "step")
    /\ pc' = After(OrderO3, "step")
    /\ UNCHANGED <<prog, frame, running, dt, keys, terrain, bonus_points, scroll_x, game_time>>
    /\ UNCHANGED ds_vars

\* o3.py:223-225  check_bonus and the removal of what it collected
O3Collect ==
    /\ prog = "o3" /\ pc = "collect"
    /\ bike' = CollectO3(bike, bonus_points)[1]
    /\ bonus_points' = CollectO3(bike, bonus_points)[2]
    /\ trace' = Append(trace, "collect")
    /\ pc' = After(OrderO3, "collect")
    /\ UNCHANGED <<prog, frame, running, dt, keys, terrain, scroll_x, game_time>>
    /\ UNCHANGED ds_vars

\* o3.py:228-232  the camera
O3Camera ==
    /\ prog = "o3" /\ pc = "camera"
    /\ scroll_x' = ScrollOf(bike.x)
    /\ trace' = Append(trace, "camera")
    /\ pc' = After(OrderO3, "camera")
    /\ UNCHANGED <<prog, frame, running, dt, keys, terrain, bonus_points, bike, game_time>>
    /\ UNCHANGED ds_vars

\* o3.py:235-244  drawing: reads the state, changes none of it
O3Render ==
    /\ prog = "o3" /\ pc = "render"
    /\ trace' = Append(trace, "render")
    /\ pc' = After(OrderO3, "render")
    /\ UNCHANGED <<prog, frame, running, dt, keys>>
    /\ UNCHANGED o3_vars
    /\ UNCHANGED ds_vars

\* o3.py:210, 246  the loop ends: pygame.quit()
O3Quit ==
    /\ prog = "o3" /\ pc = "top" /\ ~running
    /\ pc' = "done"
    /\ UNCHANGED <<prog, frame, running, dt, keys, trace>>
    /\ UNCHANGED o3_vars
    /\ UNCHANGED ds_vars

-----------------------------------------------------------------------------
(* src/Deepseek.py, Game.run: one action per call of the loop body *)

\* Deepseek.py:161-165  while running: the tick and the events
DSTick ==
    /\ prog = "ds" /\ pc = "top" /\ running /\ frame < MaxFrames
    /\ \E quit \in BOOLEAN : running' = ~quit
    /\ frame' = frame + 1
    /\ trace' = <<>>
    /\ pc' = OrderDS[1]
    /\ UNCHANGED <<prog, dt, keys, bike>>
    /\ UNCHANGED <<terrain, bonus_points, scroll_x, game_time>>
    /\ UNCHANGED ds_vars

\* Deepseek.py:167  self.handle_input()
DSHandleInput ==
    /\ prog = "ds" /\ pc = "input"
    /\ \E k \in SUBSET Keys :
          /\ keys' = k
          /\ bike' = handle_input(bike, k)
    /\ trace' = Append(trace, "input")
    /\ pc' = After(OrderDS, "input")
    /\ UNCHANGED <<prog, frame, running, dt>>
    /\ UNCHANGED <<terrain, bonus_points, scroll_x, game_time>>
    /\ UNCHANGED ds_vars

\* Deepseek.py:168  self.terrain.update_terrain(self.bike.x)
DSUpdateTerrain ==
    /\ prog = "ds" /\ pc = "extend"
    /\ \E d \in Deltas : points' = update_terrain(points, bike.x, d)
    /\ trace' = Append(trace, "extend")
    /\ pc' = After(OrderDS, "extend")
    /\ UNCHANGED <<prog, frame, running, dt, keys, bike>>
    /\ UNCHANGED <<terrain, bonus_points, scroll_x, game_time>>
    /\ UNCHANGED <<current_x, camera_x, bonuses>>

\* Deepseek.py:169  self.bike.update(self.terrain.points, dt)
DSBikeUpdate ==
    /\ prog = "ds" /\ pc = "step"
    /\ bike' = BikeUpdateDS(bike, points)
    /\ trace' = Append(trace, "step")
    /\ pc' = After(OrderDS, "step")
    /\ UNCHANGED <<prog, frame, running, dt, keys>>
    /\ UNCHANGED <<terrain, bonus_points, scroll_x, game_time>>
    /\ UNCHANGED ds_vars

\* Deepseek.py:170  self.update_camera()
DSUpdateCamera ==
    /\ prog = "ds" /\ pc = "camera"
    /\ camera_x' = update_camera(camera_x, bike)
    /\ trace' = Append(trace, "camera")
    /\ pc' = After(OrderDS, "camera")
    /\ UNCHANGED <<prog, frame, running, dt, keys, bike>>
    /\ UNCHANGED <<terrain, bonus_points, scroll_x, game_time>>
    /\ UNCHANGED <<points, current_x, bonuses>>

\* Deepseek.py:171  self.check_bonus_collection()
DSCheckBonus ==
    /\ prog = "ds" /\ pc = "collect"
    /\ bike' = check_bonus_collection(bike, bonuses)[1]
    /\ bonuses' = check_bonus_collection(bike, bonuses)[2]
    /\ trace' = Append(trace, "collect")
    /\ pc' = After(OrderDS, "collect")
    /\ UNCHANGED <<prog, frame, running, dt, keys>>
    /\ UNCHANGED <<terrain, bonus_points, scroll_x, game_time>>
    /\ UNCHANGED <<points, current_x, camera_x>>

\* Deepseek.py:173-184  drawing: reads the state, changes none of it
DSRender ==
    /\ prog = "ds" /\ pc = "render"
    /\ trace' = Append(trace, "render")
    /\ pc' = After(OrderDS, "render")
    /\ UNCHANGED <<prog, frame, running, dt, keys, bike>>
    /\ UNCHANGED <<terrain, bonus_points, scroll_x, game_time>>
    /\ UNCHANGED ds_vars

\* Deepseek.py:161, 186  the loop ends: pygame.quit()
DSQuit ==
    /\ prog = "ds" /\ pc = "top" /\ ~running
    /\ pc' = "done"
    /\ UNCHANGED <<prog, frame, running, dt, keys, trace, bike>>
    /\ UNCHANGED <<terrain, bonus_points, scroll_x, game_time>>
    /\ UNCHANGED ds_vars

Next ==
    \/ O3Input \/ O3Update \/ O3Collect \/ O3Camera \/ O3Render \/ O3Quit
    \/ DSTick \/ DSHandleInput \/ DSUpdateTerrain \/ DSBikeUpdate
    \/ DSUpdateCamera \/ DSCheckBonus \/ DSRender \/ DSQuit

Spec == Init /\ [][Next]_vars

-----------------------------------------------------------------------------
(* The claims *)

\* C1: in o3.py the horizontal velocity is never negative at any point of any
\* frame, whatever keys are held and whatever dt is, and so x never decreases.
C1_VelocityNonNegative ==
    /\ [](prog = "o3" => bike.vx >= 0)
    /\ [][prog = "o3" => bike'.x >= bike.x]_vars

\* a frame in which the brake was held at rest: update computed a negative
\* velocity (ax < 0 from vx = 0) and left vx at 0
C1_Witness ==
    /\ prog = "o3" /\ pc = "collect"
    /\ "DOWN" \in keys /\ "UP" \notin keys
    /\ bike.ax < 0 /\ bike.vx = 0

\* C2 (as claimed): in o3.py, after every Bike.update the tracking error at
\* the new x, (get_ground_y(x) + suspension_offset) - y, is at most
\* error_threshold in absolute value.
C2_SnapCorrectionBound ==
    prog = "o3" => Abs(TrackingError(bike, terrain)) <= error_threshold * Scale

\* C3 (as claimed): every terrain sample is inside its band: [200, HEIGHT - 100]
\* for the random walk of Deepseek.py, and for the sine-plus-noise profile of
\* o3.py the window, [0, HEIGHT], which a clamp after the jitter would keep.
C3_TerrainClampBound ==
    /\ prog = "ds" =>
          \A i \in 1..Len(points) :
              200 * Scale <= points[i][2] /\ points[i][2] <= (HEIGHT - 100) * Scale
    /\ prog = "o3" =>
          \A i \in 1..Len(terrain) :
              0 <= terrain[i][2] /\ terrain[i][2] <= HEIGHT_O3 * Scale

\* C4: in Deepseek.py the list of samples before any step is a prefix of the
\* list after it: update_terrain only appends.
C4_AppendOnly == [][prog = "ds" => IsPrefix(points, points')]_vars

\* the first frame from the start position: update_terrain has just appended
\* a sample to the 26 of the initial terrain
C4_Witness ==
    /\ prog = "ds" /\ pc = "step" /\ frame = 1
    /\ bike.x = 100 * Scale
    /\ Len(points) = WIDTH \div TERRAIN_SEGMENT_LENGTH + 3

\* places left and right of a profile at which the height is asked, in pixels
\* from its first and from its last sample
ProbeOffsets == {1, 50}

\* C5 (as claimed): left of the first sample the height query returns the
\* first sample's y and right of the last sample the last sample's y, in both
\* prototypes, also for the bike itself once it is left of the first sample.
C5_FlatExtrapolation ==
    /\ prog = "o3" =>
          \A o \in ProbeOffsets :
              /\ get_ground_y(terrain, terrain[1][1] - o * Scale) = terrain[1][2]
              /\ get_ground_y(terrain, Last(terrain)[1] + o * Scale) = Last(terrain)[2]
    /\ prog = "ds" =>
          /\ \A o \in ProbeOffsets :
                /\ HeightDS(points, points[1][1] - o * Scale) = points[1][2]
                /\ HeightDS(points, Last(points)[1] + o * Scale) = Last(points)[2]
          /\ (pc = After(OrderDS, "step") /\ frame > 0 /\ bike.x < points[1][1]) =>
                bike.y = points[1][2] - 20 * Scale

\* the bonuses collected so far
CollectedO3 == BONUS_COUNT - Len(bonus_points)

CollectedDS == Cardinality({i \in 1..Len(bonuses) : bonuses[i].collected})

C7_CollectionTest ==
    [][/\ (prog = "o3" /\ pc = "collect") =>
             \A i \in 1..Len(bonus_points) :
                 (\A j \in 1..Len(bonus_points') : bonus_points'[j] # bonus_points[i])
                     <=> /\ Abs(bike.x - bonus_points[i][1]) < x_tolerance * Scale
                         /\ Abs(bike.y - bonus_points[i][2]) < y_tolerance * Scale
       /\ (prog = "ds" /\ pc = "collect") =>
             \A i \in 1..Len(bonuses) :
                 (bonuses'[i].collected /\ ~bonuses[i].collected)
                     <=> /\ ~bonuses[i].collected
                         /\ Abs(bike.x - bonuses[i].x) < ds_x_tolerance * Scale
                         /\ Abs(bike.y - bonuses[i].y) < y_tolerance * Scale
      ]_vars

\* C8: the height query at the x of any sample, the first and the last
\* included, returns that sample's y, in both prototypes.  A profile is
\* checked in the state that first holds it: o3.py builds its terrain once,
\* before the first frame, and Deepseek.py changes its points only in
\* update_terrain.
C8_KnotExactness ==
    /\ (prog = "o3" /\ frame = 0) =>
          \A i \in 1..Len(terrain) : get_ground_y(terrain, terrain[i][1]) = terrain[i][2]
    /\ (prog = "ds" /\ (frame = 0 \/ pc = After(OrderDS, "extend"))) =>
          \A i \in 1..Len(points) : HeightDS(points, points[i][1]) = points[i][2]

\* Bike.update has run with the bike on a sample that closes one segment and
\* opens the next, and put the bike 20 above that sample
C8_Witness ==
    /\ prog = "ds" /\ pc = After(OrderDS, "step") /\ frame = 1
    /\ bike.x = points[3][1]
    /\ bike.y = points[3][2] - 20 * Scale

C10_AcceleratePrecedenceClaimed ==
    \A k \in SUBSET Keys :
        {"UP", "DOWN"} \subseteq k =>
            /\ (prog = "o3" /\ pc = "step") =>
                  \A d \in DTs : Horizontal(bike, d, k) = Horizontal(bike, d, k \ {"DOWN"})
            /\ (prog = "ds" /\ pc = "input") =>
                  handle_input(bike, k).speed = handle_input(bike, k \ {"DOWN"}).speed

\* C10 (amended): with UP and DOWN both held, o3.py updates as with UP alone
\* held; Deepseek.py applies both keys, so the speed is the one with neither
\* held, BIKE_ACCEL below the one with UP alone.
C10_AcceleratePrecedence ==
    \A k \in SUBSET Keys :
        {"UP", "DOWN"} \subseteq k =>
            /\ (prog = "o3" /\ pc = "step") =>
                  \A d \in DTs : Horizontal(bike, d, k) = Horizontal(bike, d, k \ {"DOWN"})
            /\ (prog = "ds" /\ pc = "input") =>
                  /\ handle_input(bike, k).speed = handle_input(bike, k \ {"UP", "DOWN"}).speed
                  /\ handle_input(bike, k).speed
                        = handle_input(bike, k \ {"DOWN"}).speed - BIKE_ACCEL

\* Bike.update has run with both keys held and accelerated the bike
C10_Witness ==
    /\ prog = "o3" /\ pc = After(OrderO3, "step")
    /\ {"UP", "DOWN"} \subseteq keys
    /\ bike.ax > 0 /\ bike.vx > 0

====
